---- MODULE Spec2Model ----
(***************************************************************************)
(* Order fulfilment of the Speedcubicle backend: the Express application   *)
(* (POST /api/orders, POST /webhook) and the serverless webhook handler    *)
(* (api/webhook.js), all working on the same products and orders tables.   *)
(*                                                                         *)
(* Every `await pool.query(...)` and every awaited gateway call is one     *)
(* step: the statement runs atomically in the database, and the            *)
(* synchronous code that follows it up to the next await runs with it.     *)
(* Requests interleave at these steps.                                     *)
(***************************************************************************)
EXTENDS Integers, Sequences, FiniteSets, TLC

\* ------------------------------------------------------------- bounds
NumRequests == 2        \* HTTP requests (of any kind) the server receives

\* ------------------------------------------------------------- catalog
ProductIds == {1, 2}            \* the rows of the products table
\* an id with no row in the products table
UnknownId == CHOOSE id \in 1..3 : id \notin ProductIds
Price == <<20, 5>>              \* price of each product
InitStock == <<1, 2>>           \* stock of each product at the start
Emails == {"a", "b"}
\* amounts go to the gateway in cents: Math.round(total * 100)
Cents == 100

Requests == 1..NumRequests

\* The line items requests ask for: the whole stock of a product (one unit of
\* product 1, two of product 2), one unit more than the stock of product 2,
\* or one unit of an unknown product.  An item list has one or two lines.
Lines ==
    {[id |-> p, quantity |-> InitStock[p]] : p \in ProductIds}
    \cup {[id |-> 2, quantity |-> InitStock[2] + 1]}
    \cup {[id |-> UnknownId, quantity |-> 1]}
ItemLists == {<<x>> : x \in Lines} \cup {<<x, y>> : x, y \in Lines}

VARIABLES
    products,   \* products table: id -> [price, stock]
    orders,     \* orders table in id order: rows [email, products, total, status]
    req         \* the requests: handler position, locals, response

vars == <<products, orders, req>>

\* ------------------------------------------------------------- JSON
\* The JSON text of an item array is the sequence of its <<id, quantity>>
\* pairs; a text that does not parse is the "garbage" document.
JSONstringify(items) ==
    [kind |-> "json",
     text |-> [k \in 1..Len(items) |-> <<items[k].id, items[k].quantity>>]]

Garbage == [kind |-> "garbage", text |-> <<>>]
Absent == [kind |-> "absent", text |-> <<>>]

\* JSON.parse: the items of a text, or a SyntaxError (ok = FALSE).
JSONparse(doc) ==
    IF doc.kind = "json"
    THEN [ok |-> TRUE,
          items |-> [k \in 1..Len(doc.text) |->
                        [id |-> doc.text[k][1], quantity |-> doc.text[k][2]]]]
    ELSE [ok |-> FALSE, items |-> <<>>]

\* ------------------------------------------------------------- database
\* SELECT price, stock FROM products WHERE id=$1
SelectProduct(id) ==
    IF id \in DOMAIN products THEN <<products[id]>> ELSE <<>>

\* A statement that takes one unit whatever the quantity.
UpdateStockByOne(qty, id) ==
    IF id \in DOMAIN products
    THEN [products EXCEPT ![id].stock = @ - 1]
    ELSE products

\* UPDATE products SET stock = stock - $1 WHERE id=$2
UpdateStock(qty, id) ==
    IF id \in DOMAIN products
    THEN [products EXCEPT ![id].stock = @ - qty]
    ELSE products

\* A statement that replaces the customer's latest order when there is one.
UpsertOrder(email, items, total) ==
    LET row == [email |-> email, products |-> JSONstringify(items),
                total |-> total, status |-> "paid"]
        mine == {k \in 1..Len(orders) : orders[k].email = email}
    IN  IF mine = {} THEN Append(orders, row)
        ELSE [orders EXCEPT ![CHOOSE k \in mine : \A j \in mine : j <= k] = row]

\* INSERT INTO orders(email, products, total, status) VALUES($1, $2, $3, $4)
\* with the literal 'paid' for $4.
InsertOrder(email, items, total) ==
    Append(orders, [email |-> email, products |-> JSONstringify(items),
                    total |-> total, status |-> "paid"])

\* A lookup that returns the first order of the email.
OldestOrder(email) ==
    LET mine == {k \in 1..Len(orders) : orders[k].email = email}
    IN  IF mine = {} THEN <<>>
        ELSE LET k == CHOOSE k \in mine : \A j \in mine : k <= j
             IN  <<[id |-> k, products |-> orders[k].products]>>

\* SELECT products FROM orders WHERE email=$1 ORDER BY id DESC LIMIT 1
\* (the row's id is kept with it).
LatestOrder(email) ==
    LET mine == {k \in 1..Len(orders) : orders[k].email = email}
    IN  IF mine = {} THEN <<>>
        ELSE LET k == CHOOSE k \in mine : \A j \in mine : j <= k
             IN  <<[id |-> k, products |-> orders[k].products]>>

\* ------------------------------------------------------------- requests
\* kind, pc, the request's input (email, items, pm; sigOk, type, eventId,
\* metadata) and the handler's locals (items, i, total); response is the
\* status sent (0: none).  History of what the handler did: db (it issued a
\* query), fault (a query or gateway call of it failed), charged (amount
\* charged, -1: none), dec (quantity it took off each product), order (id of
\* the row it inserted, 0: none), notified (it called sendConfirmationEmail),
\* short (a SELECT of it found less stock than the item asks for), summed
\* (the items whose price x quantity it added to total), mail (the
\* confirmation mail: none, pending, sent or failed), looked (it issued the
\* fallback lookup), from (id of the order row the lookup returned, 0: none).
\* sent (number of responses sent), charges (number of charges the gateway
\* accepted; charged is in cents).  Of a
\* checkout-session request: lineItems (the line_items sent to the gateway),
\* metadata (the metadata.items sent), session (the gateway created it).
NoRequest ==
    [kind |-> "none", pc |-> "idle", email |-> "", items |-> <<>>,
     pm |-> FALSE, sigOk |-> FALSE, type |-> "", eventId |-> 0,
     metadata |-> Absent, i |-> 0, total |-> 0, response |-> 0,
     db |-> FALSE, fault |-> FALSE, charged |-> -1,
     dec |-> [p \in ProductIds |-> 0], order |-> 0, notified |-> FALSE,
     short |-> FALSE, lineItems |-> <<>>, session |-> FALSE,
     summed |-> <<>>, mail |-> "none",
     looked |-> FALSE, from |-> 0, sent |-> 0, charges |-> 0]

\* Requests are numbered in the order they arrive.
NextToArrive(r) ==
    /\ req[r].pc = "idle"
    /\ \A s \in Requests : s < r => req[s].pc # "idle"

\* res.status(code)...: the handler of rec has answered and returned.
Respond(rec, code) ==
    [rec EXCEPT !.pc = "done", !.response = code,
                !.sent = @ + IF code = 0 THEN 0 ELSE 1]

\* The query or gateway call the handler of rec awaited has rejected.
Failed(rec) == [rec EXCEPT !.fault = TRUE]

\* The handler of rec has taken qty off the stock of product id.
Took(rec, qty, id) ==
    IF id \in ProductIds THEN [rec EXCEPT !.dec[id] = @ + qty] ELSE rec

\* The handler of rec has read row for item.
Read(rec, row, item) ==
    [rec EXCEPT !.short = @ \/ row.stock < item.quantity]

\* total += rows[0].price * item.quantity
AddToTotal(rec, row, item) ==
    [rec EXCEPT !.total = @ + row.price * item.quantity,
                !.summed = Append(@, item)]

\* The loop over items goes on with item i + 1, or ends and goes to `after`.
NextItem(rec, loop, after) ==
    [rec EXCEPT !.i = @ + 1,
                !.pc = IF rec.i = Len(rec.items) THEN after ELSE loop]

\* ------------------------------------------------------------- POST /api/orders
\* A validation that does not look at the payment method.
MissingFieldsNoInstrument(email, items, pm) ==
    email = "" \/ Len(items) = 0

\* if (!email || !items?.length || !paymentMethodId) return 400
MissingFields(email, items, pm) ==
    email = "" \/ Len(items) = 0 \/ ~pm

\* A check that finds every stock sufficient.
InsufficientNever(row, item) == FALSE

\* rows[0].stock < item.quantity
Insufficient(row, item) == row.stock < item.quantity

\* The request arrives and its fields are checked.
PostOrders(r, email, items, pm) ==
    /\ NextToArrive(r)
    /\ LET me == [NoRequest EXCEPT !.kind = "orders", !.email = email,
                                   !.items = items, !.pm = pm]
       IN  req' = [req EXCEPT ![r] =
             IF MissingFields(email, items, pm) THEN Respond(me, 400)
             ELSE [me EXCEPT !.pc = "check", !.i = 1]]
    /\ UNCHANGED <<products, orders>>

\* One turn of the first loop: read the product of item i, check it and add
\* it to the total.  ok = FALSE: the query rejects, the catch block answers 500.
OrdersCheck(r, ok) ==
    /\ req[r].kind = "orders" /\ req[r].pc = "check"
    /\ LET me == [req[r] EXCEPT !.db = TRUE]
           item == me.items[me.i]
           rows == SelectProduct(item.id)
       IN  req' = [req EXCEPT ![r] =
             IF ~ok THEN Respond(Failed(me), 500)
             ELSE IF Len(rows) = 0 THEN Respond(me, 400)
             ELSE IF Insufficient(rows[1], item)
             THEN Respond(Read(me, rows[1], item), 400)
             ELSE NextItem(AddToTotal(Read(me, rows[1], item), rows[1], item),
                           "check", "charge")]
    /\ UNCHANGED <<products, orders>>

\* A handler that goes on to the stock updates whatever the gateway says.
OrdersChargeIgnored(r, ok) ==
    /\ req[r].kind = "orders" /\ req[r].pc = "charge"
    /\ LET me == req[r]
       IN  req' = [req EXCEPT ![r] =
             IF ~ok THEN [Failed(me) EXCEPT !.pc = "update", !.i = 1]
             ELSE [me EXCEPT !.charged = me.total * Cents, !.charges = @ + 1,
                             !.pc = "update", !.i = 1]]
    /\ UNCHANGED <<products, orders>>

\* await stripe.paymentIntents.create({amount: Math.round(total * 100), ...})
\* ok = FALSE: the gateway rejects the charge, the catch block answers 500.
OrdersCharge(r, ok) ==
    /\ req[r].kind = "orders" /\ req[r].pc = "charge"
    /\ LET me == req[r]
       IN  req' = [req EXCEPT ![r] =
             IF ~ok THEN Respond(Failed(me), 500)
             ELSE [me EXCEPT !.charged = me.total * Cents, !.charges = @ + 1,
                             !.pc = "update", !.i = 1]]
    /\ UNCHANGED <<products, orders>>

\* One turn of the second loop: take the quantity of item i off the stock.
OrdersUpdate(r, ok) ==
    /\ req[r].kind = "orders" /\ req[r].pc = "update"
    /\ LET me == [req[r] EXCEPT !.db = TRUE]
           item == me.items[me.i]
       IN  IF ~ok
           THEN /\ req' = [req EXCEPT ![r] = Respond(Failed(me), 500)]
                /\ UNCHANGED products
           ELSE /\ products' = UpdateStock(item.quantity, item.id)
                /\ req' = [req EXCEPT ![r] =
                     NextItem(Took(me, item.quantity, item.id),
                              "update", "insert")]
    /\ UNCHANGED orders

\* A handler that answers with success whether or not the INSERT went
\* through.
OrdersInsertOrNot(r, ok) ==
    /\ req[r].kind = "orders" /\ req[r].pc = "insert"
    /\ LET me == [req[r] EXCEPT !.db = TRUE]
       IN  IF ~ok
           THEN /\ req' = [req EXCEPT ![r] = Respond(Failed(me), 200)]
                /\ UNCHANGED orders
           ELSE /\ orders' = InsertOrder(me.email, me.items, me.total)
                /\ req' = [req EXCEPT ![r] =
                     Respond([me EXCEPT !.order = Len(orders) + 1,
                                        !.notified = TRUE,
                                        !.mail = "pending"], 200)]
    /\ UNCHANGED products

\* INSERT ... RETURNING *, sendConfirmationEmail, res.json({success: true, ...})
OrdersInsert(r, ok) ==
    /\ req[r].kind = "orders" /\ req[r].pc = "insert"
    /\ LET me == [req[r] EXCEPT !.db = TRUE]
       IN  IF ~ok
           THEN /\ req' = [req EXCEPT ![r] = Respond(Failed(me), 500)]
                /\ UNCHANGED orders
           ELSE /\ orders' = InsertOrder(me.email, me.items, me.total)
                /\ req' = [req EXCEPT ![r] =
                     Respond([me EXCEPT !.order = Len(orders) + 1,
                                        !.notified = TRUE,
                                        !.mail = "pending"], 200)]
    /\ UNCHANGED products

\* ------------------------------------------------------------- POST /api/create-checkout-session
\* unit_amount: Math.round((i.price || 0) * 100); an item without a price
\* field has price 0 here.
UnitAmount(i) == i.price * Cents

\* A unit amount read from the products table.
UnitAmountOfCatalog(i) ==
    IF i.id \in ProductIds THEN products[i.id].price * Cents ELSE 0

\* items.map(i => ({price_data: {..., unit_amount}, quantity: i.quantity}))
LineItems(items) ==
    [k \in 1..Len(items) |->
        [unit_amount |-> UnitAmount(items[k]), quantity |-> items[k].quantity]]

\* A manifest that keeps the first item only.
ManifestOfFirst(items) ==
    [k \in 1..(IF Len(items) = 0 THEN 0 ELSE 1) |->
        [id |-> items[k].id, quantity |-> items[k].quantity]]

\* items.map(i => ({ id: i.id, quantity: i.quantity }))
Manifest(items) ==
    [k \in 1..Len(items) |->
        [id |-> items[k].id, quantity |-> items[k].quantity]]

\* A handler that reserves a unit of every product for the session and
\* answers 200 whatever the gateway says.
PostCheckoutReserving(r, email, items, given, ok) ==
    /\ NextToArrive(r)
    /\ req' = [req EXCEPT ![r] =
          Respond([NoRequest EXCEPT !.kind = "checkout", !.email = email,
                                    !.items = items, !.fault = ~ok], 200)]
    /\ products' = [p \in ProductIds |->
                       [products[p] EXCEPT !.stock = @ - 1]]
    /\ UNCHANGED orders

\* The whole handler: it has one await, stripe.checkout.sessions.create.
\* given = FALSE: the body has no items and items.map throws; ok = FALSE: the
\* gateway rejects.  Both are caught and answered 500.
PostCheckout(r, email, items, given, ok) ==
    /\ NextToArrive(r)
    /\ LET me == [NoRequest EXCEPT !.kind = "checkout", !.email = email,
                                   !.items = items]
       IN  req' = [req EXCEPT ![r] =
             IF ~given THEN Respond(me, 500)
             ELSE IF ~ok
             THEN Respond(Failed([me EXCEPT !.lineItems = LineItems(items)]), 500)
             ELSE Respond([me EXCEPT !.lineItems = LineItems(items),
                                     !.metadata = JSONstringify(Manifest(items)),
                                     !.session = TRUE], 200)]
    /\ UNCHANGED <<products, orders>>

\* ------------------------------------------------------------- sendConfirmationEmail
\* A notifier whose failure puts back the stock the order took.
SendConfirmationEmailOrUndo(r, ok) ==
    /\ req[r].mail = "pending"
    /\ req' = [req EXCEPT ![r].mail = IF ok THEN "sent" ELSE "failed"]
    /\ products' = IF ok THEN products
                   ELSE [p \in ProductIds |->
                           [products[p] EXCEPT !.stock = @ + req[r].dec[p]]]
    /\ UNCHANGED orders

\* The handler calls sendConfirmationEmail without awaiting it and goes on
\* to its answer; this step is the end of the awaited transporter.sendMail:
\* the mail is sent, or (ok = FALSE) sendMail rejects and the catch block
\* logs the error.
SendConfirmationEmail(r, ok) ==
    /\ req[r].mail = "pending"
    /\ req' = [req EXCEPT ![r].mail = IF ok THEN "sent" ELSE "failed"]
    /\ UNCHANGED <<products, orders>>

\* ------------------------------------------------------------- gateway events
Completed == "checkout.session.completed"
Other == "payment_intent.succeeded"

\* A handler that fulfils events of every type.
IsCheckoutCompletedAlways(type) == TRUE

\* if (event.type === 'checkout.session.completed')
IsCheckoutCompleted(type) == type = Completed

\* metadata.items of a session: absent, unparsable, or the JSON of a manifest
\* (possibly of the empty array).
Metadata == {Absent, Garbage} \cup {JSONstringify(l) : l \in ItemLists \cup {<<>>}}

EventOf(s) ==
    [type |-> req[s].type, id |-> req[s].eventId, email |-> req[s].email,
     metadata |-> req[s].metadata]

\* The events the gateway may deliver as request r to the endpoint `kind`: a
\* new checkout-completed event (for one of emails, with one of metas), a
\* new event of another type, or once more a checkout-completed event it has
\* already delivered there.
Deliverable(r, kind, emails, metas) ==
    [type : {Completed}, id : {r}, email : emails, metadata : metas]
    \cup {[type |-> Other, id |-> r, email |-> "a", metadata |-> Absent]}
    \cup {EventOf(s) : s \in {t \in Requests :
                                 /\ req[t].kind = kind /\ req[t].sigOk
                                 /\ req[t].type = Completed}}

\* What a forger posts: a checkout-completed event for one unit of product 1.
Forged(r) ==
    [type |-> Completed, id |-> r, email |-> "a",
     metadata |-> JSONstringify(<<[id |-> 1, quantity |-> 1]>>)]

\* A constructEvent that throws on no signature.
ConstructEventUnverified(sigOk) == TRUE

\* stripe.webhooks.constructEvent(body, sig, secret): TRUE when it returns the
\* event, FALSE when it throws.
ConstructEvent(sigOk) == sigOk

\* items = JSON.parse(session.metadata.items) when present and parsable,
\* else [].
ManifestItems(metadata) ==
    IF metadata.kind = "absent" THEN <<>>
    ELSE IF JSONparse(metadata).ok THEN JSONparse(metadata).items
    ELSE <<>>

\* The stock loop when there are items, the INSERT when there are none.
LoopOrInsert(items) == IF Len(items) = 0 THEN "insert" ELSE "select"

\* What the client gets when the async Express handler rejects: Express 4
\* drops the rejection and never answers (0), Express 5 answers 500.
Unhandled == {0, 500}

\* ------------------------------------------------------------- POST /webhook
\* if (!items.length && email)
NeedsFallback(items, email) == Len(items) = 0 /\ email # ""

\* The delivery arrives; signature, event type and metadata are read.
PostWebhook(r, sigOk, event) ==
    /\ NextToArrive(r)
    /\ LET me == [NoRequest EXCEPT !.kind = "webhook", !.sigOk = sigOk]
           items == ManifestItems(event.metadata)
       IN  req' = [req EXCEPT ![r] =
             IF ~ConstructEvent(sigOk) THEN Respond(me, 400)
             ELSE IF ~IsCheckoutCompleted(event.type)
             THEN Respond([me EXCEPT !.type = event.type], 200)
             ELSE [me EXCEPT
                    !.type = event.type, !.eventId = event.id,
                    !.email = event.email, !.metadata = event.metadata,
                    !.items = items, !.i = 1,
                    !.pc = IF NeedsFallback(items, event.email) THEN "fallback"
                           ELSE LoopOrInsert(items)]]
    /\ UNCHANGED <<products, orders>>

\* The fallback lookup; a query that rejects, or a products column that does
\* not parse, is caught and leaves items empty.
WebhookFallback(r, ok) ==
    /\ req[r].kind = "webhook" /\ req[r].pc = "fallback"
    /\ LET me == [req[r] EXCEPT !.db = TRUE, !.fault = ~ok, !.looked = TRUE]
           rows == LatestOrder(me.email)
           items == IF ok /\ Len(rows) > 0 /\ JSONparse(rows[1].products).ok
                    THEN JSONparse(rows[1].products).items
                    ELSE <<>>
           from == IF ok /\ Len(rows) > 0 THEN rows[1].id ELSE 0
       IN  req' = [req EXCEPT ![r] =
                     [me EXCEPT !.items = items, !.from = from,
                                !.pc = LoopOrInsert(items)]]
    /\ UNCHANGED <<products, orders>>

\* The SELECT of one turn of the stock loop; an unknown product is skipped.
\* ok = FALSE: the query rejects and nothing catches it.
WebhookSelect(r, ok) ==
    /\ req[r].kind = "webhook" /\ req[r].pc = "select"
    /\ LET me == [req[r] EXCEPT !.db = TRUE]
           item == me.items[me.i]
           rows == SelectProduct(item.id)
       IN  IF ~ok
           THEN \E code \in Unhandled :
                    req' = [req EXCEPT ![r] = Respond(Failed(me), code)]
           ELSE req' = [req EXCEPT ![r] =
                  IF Len(rows) = 0 THEN NextItem(me, "select", "insert")
                  ELSE [AddToTotal(Read(me, rows[1], item), rows[1], item)
                          EXCEPT !.pc = "update"]]
    /\ UNCHANGED <<products, orders>>

\* The UPDATE of one turn of the stock loop.
WebhookUpdate(r, ok) ==
    /\ req[r].kind = "webhook" /\ req[r].pc = "update"
    /\ LET me == [req[r] EXCEPT !.db = TRUE]
           item == me.items[me.i]
       IN  IF ~ok
           THEN /\ \E code \in Unhandled :
                      req' = [req EXCEPT ![r] = Respond(Failed(me), code)]
                /\ UNCHANGED products
           ELSE /\ products' = UpdateStock(item.quantity, item.id)
                /\ req' = [req EXCEPT ![r] =
                     NextItem(Took(me, item.quantity, item.id),
                              "select", "insert")]
    /\ UNCHANGED orders

\* INSERT, sendConfirmationEmail, res.json({received: true})
WebhookInsert(r, ok) ==
    /\ req[r].kind = "webhook" /\ req[r].pc = "insert"
    /\ LET me == [req[r] EXCEPT !.db = TRUE]
       IN  IF ~ok
           THEN /\ \E code \in Unhandled :
                      req' = [req EXCEPT ![r] = Respond(Failed(me), code)]
                /\ UNCHANGED orders
           ELSE /\ orders' = InsertOrder(me.email, me.items, me.total)
                /\ req' = [req EXCEPT ![r] =
                     Respond([me EXCEPT !.order = Len(orders) + 1,
                                        !.notified = TRUE,
                                        !.mail = "pending"], 200)]
    /\ UNCHANGED products

\* ------------------------------------------------------------- api/webhook.js
\* The serverless handler: as POST /webhook, but with no fallback lookup and
\* no confirmation mail; the platform answers 500 when the handler rejects.
Handler(r, sigOk, event) ==
    /\ NextToArrive(r)
    /\ LET me == [NoRequest EXCEPT !.kind = "handler", !.sigOk = sigOk]
           items == ManifestItems(event.metadata)
       IN  req' = [req EXCEPT ![r] =
             IF ~ConstructEvent(sigOk) THEN Respond(me, 400)
             ELSE IF ~IsCheckoutCompleted(event.type)
             THEN Respond([me EXCEPT !.type = event.type], 200)
             ELSE [me EXCEPT
                    !.type = event.type, !.eventId = event.id,
                    !.email = event.email, !.metadata = event.metadata,
                    !.items = items, !.i = 1, !.pc = LoopOrInsert(items)]]
    /\ UNCHANGED <<products, orders>>

HandlerSelect(r, ok) ==
    /\ req[r].kind = "handler" /\ req[r].pc = "select"
    /\ LET me == [req[r] EXCEPT !.db = TRUE]
           item == me.items[me.i]
           rows == SelectProduct(item.id)
       IN  req' = [req EXCEPT ![r] =
             IF ~ok THEN Respond(Failed(me), 500)
             ELSE IF Len(rows) = 0 THEN NextItem(me, "select", "insert")
             ELSE [AddToTotal(Read(me, rows[1], item), rows[1], item)
                     EXCEPT !.pc = "update"]]
    /\ UNCHANGED <<products, orders>>

HandlerUpdate(r, ok) ==
    /\ req[r].kind = "handler" /\ req[r].pc = "update"
    /\ LET me == [req[r] EXCEPT !.db = TRUE]
           item == me.items[me.i]
       IN  IF ~ok
           THEN /\ req' = [req EXCEPT ![r] = Respond(Failed(me), 500)]
                /\ UNCHANGED products
           ELSE /\ products' = UpdateStock(item.quantity, item.id)
                /\ req' = [req EXCEPT ![r] =
                     NextItem(Took(me, item.quantity, item.id),
                              "select", "insert")]
    /\ UNCHANGED orders

HandlerInsert(r, ok) ==
    /\ req[r].kind = "handler" /\ req[r].pc = "insert"
    /\ LET me == [req[r] EXCEPT !.db = TRUE]
       IN  IF ~ok
           THEN /\ req' = [req EXCEPT ![r] = Respond(Failed(me), 500)]
                /\ UNCHANGED orders
           ELSE /\ orders' = InsertOrder(me.email, me.items, me.total)
                /\ req' = [req EXCEPT ![r] =
                     Respond([me EXCEPT !.order = Len(orders) + 1], 200)]
    /\ UNCHANGED products

\* ------------------------------------------------------------- specification
Init ==
    /\ products = [p \in ProductIds |->
                     [price |-> Price[p], stock |-> InitStock[p]]]
    /\ orders = <<>>
    /\ req = [r \in Requests |-> NoRequest]

\* Order requests that lack one of the required fields.
Malformed ==
    LET one == <<[id |-> 1, quantity |-> 1]>>
    IN  {[email |-> "", items |-> one, pm |-> TRUE],
         [email |-> "a", items |-> <<>>, pm |-> TRUE],
         [email |-> "a", items |-> one, pm |-> FALSE]}

\* The steps of the handlers once a request has arrived.
OrdersSteps(r) ==
    \/ \E ok \in BOOLEAN : OrdersCheck(r, ok)
    \/ \E ok \in BOOLEAN : OrdersCharge(r, ok)
    \/ \E ok \in BOOLEAN : OrdersUpdate(r, ok)
    \/ \E ok \in BOOLEAN : OrdersInsert(r, ok)

WebhookSteps(r) ==
    \/ \E ok \in BOOLEAN : WebhookFallback(r, ok)
    \/ \E ok \in BOOLEAN : WebhookSelect(r, ok)
    \/ \E ok \in BOOLEAN : WebhookUpdate(r, ok)
    \/ \E ok \in BOOLEAN : WebhookInsert(r, ok)

HandlerSteps(r) ==
    \/ \E ok \in BOOLEAN : HandlerSelect(r, ok)
    \/ \E ok \in BOOLEAN : HandlerUpdate(r, ok)
    \/ \E ok \in BOOLEAN : HandlerInsert(r, ok)

\* The Express application: order requests and webhook deliveries.
Next ==
    \E r \in Requests :
        \/ \E email \in Emails, items \in ItemLists :
              PostOrders(r, email, items, TRUE)
        \/ \E b \in Malformed : PostOrders(r, b.email, b.items, b.pm)
        \/ OrdersSteps(r)
        \/ \E event \in Deliverable(r, "webhook", Emails, Metadata) :
              PostWebhook(r, TRUE, event)
        \/ PostWebhook(r, FALSE, Forged(r))
        \/ WebhookSteps(r)

Spec == Init /\ [][Next]_vars

\* The two webhook endpoints, POST /webhook and api/webhook.js, receiving
\* deliveries for one email with few manifests.
FewMetadata ==
    {Absent, Garbage,
     JSONstringify(<<[id |-> 1, quantity |-> 1]>>),
     JSONstringify(<<[id |-> 2, quantity |-> 2], [id |-> UnknownId, quantity |-> 1]>>)}

NextHooks ==
    \E r \in Requests :
        \/ \E event \in Deliverable(r, "webhook", {"a"}, FewMetadata) :
              PostWebhook(r, TRUE, event)
        \/ PostWebhook(r, FALSE, Forged(r))
        \/ WebhookSteps(r)
        \/ \E event \in Deliverable(r, "handler", {"a"}, FewMetadata) :
              Handler(r, TRUE, event)
        \/ Handler(r, FALSE, Forged(r))
        \/ HandlerSteps(r)

SpecHooks == Init /\ [][NextHooks]_vars

\* POST /api/orders and the confirmation mails, with few orders: one that can be served, and
\* orders with an unknown product or too large a quantity in first or in
\* second position.
FewItemLists ==
    LET good == [id |-> 1, quantity |-> 1]
        more == [id |-> 2, quantity |-> InitStock[2]]
        unknown == [id |-> UnknownId, quantity |-> 1]
        toomany == [id |-> 2, quantity |-> InitStock[2] + 1]
    IN  {<<good>>, <<good, more>>, <<unknown, good>>, <<good, unknown>>,
         <<toomany, good>>, <<good, toomany>>}

NextOrders ==
    \E r \in Requests :
        \/ \E items \in FewItemLists : PostOrders(r, "a", items, TRUE)
        \/ \E b \in Malformed : PostOrders(r, b.email, b.items, b.pm)
        \/ OrdersSteps(r)
        \/ \E ok \in BOOLEAN : SendConfirmationEmail(r, ok)

SpecOrders == Init /\ [][NextOrders]_vars

\* Every awaited query and gateway call settles, and the event loop then
\* runs the handler's continuation.
SpecOrdersLive ==
    SpecOrders /\ \A r \in Requests : WF_vars(OrdersSteps(r))

\* Checkout sessions, the deliveries of their events to POST /webhook and
\* the confirmation mails.
\* The caller sends with each item a price: the catalog's, another, or none.
CheckoutItems ==
    LET line(id, q, price) == [id |-> id, quantity |-> q, price |-> price]
    IN  {<<line(1, 1, Price[1])>>, <<line(1, 1, 1)>>, <<line(1, 1, 0)>>,
         <<line(2, 2, Price[2]), line(1, 1, Price[1])>>,
         <<line(UnknownId, 1, 7)>>, <<>>}

\* The checkout-completed events of the sessions created so far.
SessionEvents ==
    {[type |-> Completed, id |-> s, email |-> req[s].email,
      metadata |-> req[s].metadata] :
        s \in {t \in Requests : req[t].kind = "checkout" /\ req[t].session}}

NextCheckout ==
    \E r \in Requests :
        \/ \E items \in CheckoutItems, ok \in BOOLEAN :
              PostCheckout(r, "a", items, TRUE, ok)
        \/ PostCheckout(r, "a", <<>>, FALSE, TRUE)
        \/ \E event \in SessionEvents : PostWebhook(r, TRUE, event)
        \/ WebhookSteps(r)
        \/ \E ok \in BOOLEAN : SendConfirmationEmail(r, ok)

SpecCheckout == Init /\ [][NextCheckout]_vars

\* POST /webhook started on an orders table that already has rows: two
\* orders of "a" and then one of "b"; the deliveries are for "a".
PriorOrders ==
    LET row(email, items, total) ==
            [email |-> email, products |-> JSONstringify(items),
             total |-> total, status |-> "paid"]
    IN  <<row("a", <<[id |-> 2, quantity |-> 2]>>, 2 * Price[2]),
          row("a", <<[id |-> 1, quantity |-> 1]>>, Price[1]),
          row("b", <<[id |-> 2, quantity |-> 2], [id |-> 1, quantity |-> 1]>>,
              2 * Price[2] + Price[1])>>

InitWithOrders ==
    /\ products = [p \in ProductIds |->
                     [price |-> Price[p], stock |-> InitStock[p]]]
    /\ orders = PriorOrders
    /\ req = [r \in Requests |-> NoRequest]

\* Manifests of the deliveries: none, unparsable, empty, or of one item.
FallbackMetadata ==
    {Absent, Garbage, JSONstringify(<<>>),
     JSONstringify(<<[id |-> 2, quantity |-> 2]>>)}

NextFallback ==
    \E r \in Requests :
        \/ \E event \in Deliverable(r, "webhook", {"a"}, FallbackMetadata) :
              PostWebhook(r, TRUE, event)
        \/ WebhookSteps(r)

SpecFallback == InitWithOrders /\ [][NextFallback]_vars

\* The three handlers that write orders, POST /api/orders, POST /webhook and
\* api/webhook.js, with few orders and events, all for "a".
PathItemLists ==
    {<<[id |-> 1, quantity |-> 1]>>,
     <<[id |-> 2, quantity |-> 2], [id |-> 1, quantity |-> 1]>>}

PathMetadata ==
    {Absent,
     JSONstringify(<<[id |-> 2, quantity |-> 2], [id |-> 1, quantity |-> 1]>>)}

NextPaths ==
    \E r \in Requests :
        \/ \E items \in PathItemLists : PostOrders(r, "a", items, TRUE)
        \/ OrdersSteps(r)
        \/ \E event \in Deliverable(r, "webhook", {"a"}, PathMetadata) :
              PostWebhook(r, TRUE, event)
        \/ WebhookSteps(r)
        \/ \E event \in Deliverable(r, "handler", {"a"}, PathMetadata) :
              Handler(r, TRUE, event)
        \/ HandlerSteps(r)

SpecPaths == Init /\ [][NextPaths]_vars

\* ------------------------------------------------------------- properties
RECURSIVE SumOver(_, _, _)
\* The sum of f[items[k]] over the lines k..Len(items) of items.
SumOver(items, k, f) ==
    IF k > Len(items) THEN 0 ELSE f[items[k]] + SumOver(items, k + 1, f)

\* Every line item a request can carry.
AnyLine == Lines

\* The quantity of product p that items ask for, over all their lines.
QtyOf(items, p) ==
    SumOver(items, 1, [x \in AnyLine |-> IF x.id = p THEN x.quantity ELSE 0])

\* Sum of catalog price x quantity over the lines of items (all of known
\* products).
CatalogTotal(items) ==
    SumOver(items, 1, [x \in AnyLine |->
                         IF x.id \in ProductIds
                         THEN products[x.id].price * x.quantity ELSE 0])

Known(items) == \A k \in 1..Len(items) : items[k].id \in ProductIds

IsDelivery(r) == req[r].kind \in {"webhook", "handler"}

\* A delivery with a valid signature of a checkout-completed event whose
\* handler has returned, no query of it having failed.
Fulfilled(r) ==
    /\ IsDelivery(r) /\ req[r].sigOk /\ req[r].type = Completed
    /\ req[r].pc = "done" /\ ~req[r].fault

NoStockTaken(r) == \A p \in ProductIds : req[r].dec[p] = 0

RECURSIVE TakenBy(_, _)
\* The quantity of product p the requests of S have taken off the stock.
TakenBy(S, p) ==
    IF S = {} THEN 0
    ELSE LET s == CHOOSE x \in S : TRUE
         IN  req[s].dec[p] + TakenBy(S \ {s}, p)

\* C1: in every reachable state the stock of every product is >= 0.
C1_StockNeverNegative ==
    \A p \in ProductIds : products[p].stock >= 0

\* C2: when the only two requests are well-formed order submissions that each
\* ask for one unit of a product of which one unit is in stock, and neither
\* meets a failing query or charge, exactly one of them is answered 200 with a
\* created order and the other is answered 400 and creates no order.
C2_LastUnitOnce ==
    \A r, s \in Requests, p \in ProductIds :
        ( /\ r # s /\ InitStock[p] = 1
          /\ \A t \in Requests \ {r, s} : req[t].pc = "idle"
          /\ \A t \in {r, s} :
                /\ req[t].kind = "orders" /\ req[t].pc = "done"
                /\ ~req[t].fault
                /\ ~MissingFields(req[t].email, req[t].items, req[t].pm)
                /\ req[t].items = <<[id |-> p, quantity |-> 1]>> )
        => \E w \in {r, s} : \E l \in {r, s} \ {w} :
              /\ req[w].response = 200 /\ req[w].order # 0
              /\ req[l].response = 400 /\ req[l].order = 0

\* C3: the deliveries of one checkout-completed event (taken here with a
\* manifest of known products), once there are several of them and all have
\* been handled, have created exactly one order row between them and have
\* taken each product's manifest quantity off the stock exactly once.
C3_OneOrderPerEvent ==
    \A r \in Requests :
        LET same == {s \in Requests : /\ Fulfilled(s)
                                      /\ req[s].kind = req[r].kind
                                      /\ req[s].eventId = req[r].eventId}
            manifest == ManifestItems(req[r].metadata)
        IN  ( /\ Fulfilled(r) /\ Cardinality(same) > 1
              /\ Len(manifest) > 0 /\ Known(manifest) )
            => /\ Cardinality({s \in same : req[s].order # 0}) = 1
               /\ \A p \in ProductIds : TakenBy(same, p) = QtyOf(manifest, p)

\* C4: a checkout-completed delivery whose manifest names a product that
\* does not exist, or asks for more than the stock it reads, creates no order
\* row and takes nothing off any stock.
C4_UnfulfillableNoEffect ==
    \A r \in Requests :
        ( /\ Fulfilled(r)
          /\ \/ ~Known(ManifestItems(req[r].metadata))
             \/ req[r].short )
        => req[r].order = 0 /\ NoStockTaken(r)

\* C5: a checkout-completed delivery with a valid signature that carries no
\* manifest, or one that does not parse, for an email no other order row
\* has, creates no order row, takes nothing off any stock, and is answered
\* 200.
C5_NoManifestNoOrder ==
    \A r \in Requests :
        ( /\ Fulfilled(r)
          /\ req[r].metadata.kind \in {"absent", "garbage"}
          /\ \A k \in 1..Len(orders) :
                k # req[r].order => orders[k].email # req[r].email )
        => req[r].order = 0 /\ NoStockTaken(r) /\ req[r].response = 200

\* C6: every order row's stored line items all name products of the products
\* table, and its total is the sum over them of that product's price x the
\* quantity.
C6_TotalIsCatalogSum ==
    \A k \in 1..Len(orders) :
        LET items == JSONparse(orders[k].products).items
        IN  Known(items) /\ orders[k].total = CatalogTotal(items)

\* C7: a webhook delivery that fails signature verification is answered 400
\* at once, and its handler issues no query and changes neither table, at
\* any time.
C7_ForgedRejected ==
    \A r \in Requests :
        (IsDelivery(r) /\ ~req[r].sigOk)
        => /\ req[r].pc = "done" /\ req[r].response = 400
           /\ ~req[r].db /\ req[r].order = 0 /\ NoStockTaken(r)

\* C7 witness: both endpoints have rejected a forged delivery.
C7_Witness ==
    \E r, s \in Requests :
        /\ req[r].kind = "webhook" /\ ~req[r].sigOk /\ req[r].response = 400
        /\ req[s].kind = "handler" /\ ~req[s].sigOk /\ req[s].response = 400

\* C8: once the handler of a delivery with a valid signature has returned,
\* the delivery has been answered: with 200, or with 500 and then only after
\* a query of it failed.
C8_AlwaysAcknowledged ==
    \A r \in Requests :
        (IsDelivery(r) /\ req[r].sigOk /\ req[r].pc = "done")
        => \/ req[r].response = 200
           \/ req[r].response = 500 /\ req[r].fault

\* C9: an order request that is the only request so far, is well formed,
\* names one product p only and meets no failing query or charge: when the
\* quantity it asks of p equals p's stock it is answered 200, has an order,
\* and leaves the stock of p at 0; when the quantity is one more than p's
\* stock it is answered 400, is not charged, has no order, and leaves the
\* stock of p as it was.
C9_BoundaryQuantity ==
    \A r \in Requests, p \in ProductIds :
        ( /\ req[r].kind = "orders" /\ req[r].pc = "done" /\ ~req[r].fault
          /\ ~MissingFields(req[r].email, req[r].items, req[r].pm)
          /\ \A s \in Requests \ {r} : req[s].pc = "idle"
          /\ \A k \in 1..Len(req[r].items) : req[r].items[k].id = p )
        => /\ QtyOf(req[r].items, p) = InitStock[p]
              => /\ req[r].response = 200 /\ req[r].order # 0
                 /\ products[p].stock = 0
           /\ QtyOf(req[r].items, p) = InitStock[p] + 1
              => /\ req[r].response = 400 /\ req[r].charged = -1
                 /\ req[r].order = 0 /\ products[p].stock = InitStock[p]

\* A request is between two of the stock decrements of its order.
PartlyApplied(r) ==
    \/ req[r].kind = "orders" /\ req[r].pc = "update" /\ req[r].i > 1
    \/ IsDelivery(r) /\ req[r].pc = "update" /\ ~NoStockTaken(r)

\* A request is about to read the products table.
AboutToRead(s) == req[s].pc \in {"check", "select"}

\* C10: no request is about to read the products table while another
\* request is between two of the stock decrements of its order.
C10_AtomicDecrement ==
    ~ \E r, s \in Requests : r # s /\ PartlyApplied(r) /\ AboutToRead(s)

\* The gateway has refused the charge of order request r.
ChargeFailed(r) ==
    /\ req[r].kind = "orders" /\ req[r].pc = "done" /\ req[r].fault
    /\ req[r].charged = -1 /\ req[r].i = Len(req[r].items) + 1

\* C11: an order request that is at its stock updates or at its insert, or
\* has taken stock or created an order, has been charged before; and one
\* whose charge the gateway refused is answered 500, has taken no stock and
\* has created no order.
C11_ChargeFirst ==
    \A r \in Requests :
        req[r].kind = "orders"
        => /\ ( \/ req[r].pc \in {"update", "insert"}
                \/ ~NoStockTaken(r) \/ req[r].order # 0 )
              => req[r].charged >= 0
           /\ ChargeFailed(r)
              => /\ req[r].response = 500
                 /\ NoStockTaken(r) /\ req[r].order = 0

\* C11 witness: one order request was refused by the gateway, another was
\* charged and has its order.
C11_Witness ==
    \E r, s \in Requests :
        /\ ChargeFailed(r)
        /\ req[s].kind = "orders" /\ req[s].charged > 0 /\ req[s].order # 0
           /\ ~NoStockTaken(s)

\* C12: an order request with no email, no payment method or no item is
\* answered 400 on arrival, and its handler issues no query, makes no charge,
\* takes no stock and creates no order, at any time.
C12_MalformedRejected ==
    \A r \in Requests :
        ( /\ req[r].kind = "orders"
          /\ req[r].email = "" \/ ~req[r].pm \/ Len(req[r].items) = 0 )
        => /\ req[r].pc = "done" /\ req[r].response = 400
           /\ ~req[r].db /\ req[r].charged = -1
           /\ NoStockTaken(r) /\ req[r].order = 0

\* C12 witness: a request with no payment method and a request with no item
\* have both been answered 400.
C12_Witness ==
    \E r, s \in Requests :
        /\ req[r].kind = "orders" /\ ~req[r].pm /\ req[r].email # ""
           /\ Len(req[r].items) > 0 /\ req[r].response = 400
        /\ req[s].kind = "orders" /\ req[s].pm /\ Len(req[s].items) = 0
           /\ req[s].response = 400

\* C13: the unit amount of every line item of a created session, of a
\* product of the catalog, is that product's price in the products table.
C13_CatalogUnitAmount ==
    \A r \in Requests :
        (req[r].kind = "checkout" /\ req[r].session)
        => \A k \in 1..Len(req[r].items) :
              req[r].items[k].id \in ProductIds
              => req[r].lineItems[k].unit_amount
                    = UnitAmountOfCatalog(req[r].items[k])

\* The {id, quantity} pairs of the items of checkout request s.
PairsOf(s) ==
    [k \in 1..Len(req[s].items) |->
        [id |-> req[s].items[k].id, quantity |-> req[s].items[k].quantity]]

\* Delivery r to POST /webhook is of the event of the session of s.
DeliveryOf(r, s) ==
    /\ req[s].kind = "checkout" /\ req[s].session
    /\ req[r].kind = "webhook" /\ req[r].eventId = s /\ Fulfilled(r)

\* C14: the metadata of a created session parses to the {id, quantity} pairs
\* of the request's items; and a handled delivery of the event of a session
\* that has at least one item, all of catalog products, has created one
\* order row, which stores those pairs and has for total the sum of
\* quantity x catalog price, and has taken off each product's stock the
\* quantity the items ask of it.  Every order row is the order of one
\* delivery.
C14_SessionFulfilled ==
    /\ Cardinality({r \in Requests : req[r].order # 0}) = Len(orders)
    /\ \A s \in Requests :
          (req[s].kind = "checkout" /\ req[s].session)
          => /\ JSONparse(req[s].metadata).ok
             /\ JSONparse(req[s].metadata).items = PairsOf(s)
             /\ \A r \in Requests :
                   ( /\ DeliveryOf(r, s)
                     /\ Len(PairsOf(s)) > 0 /\ Known(PairsOf(s)) )
                   => /\ req[r].order \in 1..Len(orders)
                      /\ LET row == orders[req[r].order]
                         IN  /\ JSONparse(row.products).items = PairsOf(s)
                             /\ row.total = CatalogTotal(PairsOf(s))
                      /\ \A p \in ProductIds :
                            req[r].dec[p] = QtyOf(PairsOf(s), p)

\* C14 witness: the event of a session for two items has been delivered and
\* its order created.
C14_Witness ==
    \E r, s \in Requests :
        /\ DeliveryOf(r, s) /\ Len(PairsOf(s)) = 2 /\ Known(PairsOf(s))
        /\ req[r].order # 0 /\ req[r].response = 200

\* The set of the lines of an item list.
LinesOf(items) == {items[k] : k \in 1..Len(items)}

\* C15: the line items stored in the order row of a request are, as a set,
\* the items whose price x quantity the request added to the order's total.
C15_StoredItemsAreSummed ==
    \A r \in Requests :
        req[r].order \in 1..Len(orders)
        => LinesOf(JSONparse(orders[req[r].order].products).items)
              = LinesOf(req[r].summed)

\* C16: a delivery with a valid signature of an event that is not a
\* checkout-completed event is answered 200 on arrival, and its handler
\* issues no query, takes no stock, creates no order and sends no
\* confirmation, at any time.
C16_OtherEventsIgnored ==
    \A r \in Requests :
        (IsDelivery(r) /\ req[r].sigOk /\ req[r].type # Completed)
        => /\ req[r].pc = "done" /\ req[r].response = 200
           /\ ~req[r].db /\ NoStockTaken(r) /\ req[r].order = 0
           /\ ~req[r].notified

\* C16 witness: each endpoint has acknowledged an event of another type.
C16_Witness ==
    \E r, s \in Requests :
        /\ req[r].kind = "webhook" /\ req[r].sigOk /\ req[r].type = Other
           /\ req[r].response = 200
        /\ req[s].kind = "handler" /\ req[s].sigOk /\ req[s].type = Other
           /\ req[s].response = 200

\* A checkout-session request has its answer; it issued no query, took no
\* stock and created no order; when the gateway rejected it there is no
\* session and the answer is 500.
CheckoutAnswered(r) ==
    /\ req[r].pc = "done" /\ req[r].response \in {200, 500}
    /\ ~req[r].db /\ NoStockTaken(r) /\ req[r].order = 0
    /\ req[r].fault => (req[r].response = 500 /\ ~req[r].session)
    /\ req[r].response = 200 => req[r].session

\* C17: the step that handles a checkout-session request leaves the products
\* and orders tables as they are, whether or not the gateway creates the
\* session, and a request the gateway rejected is answered 500.
C17_CheckoutNoEffect ==
    /\ [](\A r \in Requests : req[r].kind = "checkout" => CheckoutAnswered(r))
    /\ [][\A r \in Requests :
            (req[r].pc = "idle" /\ req'[r].kind = "checkout")
            => (products' = products /\ orders' = orders)]_vars

\* C17 witness: the gateway has created the session of one request and
\* rejected another.
C17_Witness ==
    \E r, s \in Requests :
        /\ req[r].kind = "checkout" /\ req[r].session /\ req[r].response = 200
        /\ req[s].kind = "checkout" /\ req[s].fault /\ req[s].response = 500

\* The order of request r is in the orders table as the request made it,
\* the request has its 200 answer, and an order request has taken off each
\* product the quantity its items ask of it.
OrderStands(r) ==
    /\ req[r].order \in 1..Len(orders)
    /\ orders[req[r].order] =
          [email |-> req[r].email, products |-> JSONstringify(req[r].items),
           total |-> req[r].total, status |-> "paid"]
    /\ req[r].pc = "done" /\ req[r].response = 200
    /\ req[r].kind = "orders"
       => \A p \in ProductIds : req[r].dec[p] = QtyOf(req[r].items, p)

\* C18: the step in which the confirmation mail of a request is sent or
\* fails leaves the products table, the orders table and the request's
\* answer as they are; and a request whose mail is pending (for ever, when
\* it times out) or has failed has its order row, its stock decrement and
\* its 200 answer.
C18_NotifierFailureHarmless ==
    /\ [](\A r \in Requests :
            req[r].mail \in {"pending", "failed"} => OrderStands(r))
    /\ [][\A r \in Requests :
            (req[r].mail = "pending" /\ req'[r].mail # "pending")
            => /\ products' = products /\ orders' = orders
               /\ req'[r].response = req[r].response
               /\ req'[r].order = req[r].order]_vars

\* C18 witness: the confirmation mail of an order request has failed.
C18_Witness ==
    \E r \in Requests :
        /\ req[r].kind = "orders" /\ req[r].mail = "failed"
        /\ req[r].order # 0 /\ req[r].response = 200

\* The handler of POST /webhook is fulfilling a checkout-completed event.
Fulfilling(r) ==
    req[r].kind = "webhook" /\ req[r].sigOk /\ req[r].type = Completed

\* The order rows of an email.
OrdersOf(email) == {k \in 1..Len(orders) : orders[k].email = email}

\* C19: a delivery whose manifest is present and not empty issues no lookup
\* and works on its manifest; one whose manifest is absent, unparsable or
\* empty issues the lookup, which returns the order row of the event's email
\* with the highest id, if there is one; the handler then works on the items
\* of that row, and when it has answered 200 it has created an order row with
\* those items and has taken their quantities off the stock.
C19_FallbackToLatestOrder ==
    /\ [](\A r \in Requests :
            Fulfilling(r)
            => LET manifest == ManifestItems(req[r].metadata)
               IN  /\ Len(manifest) > 0
                      => /\ ~req[r].looked /\ req[r].from = 0
                         /\ req[r].items = manifest
                   /\ (Len(manifest) = 0 /\ req[r].pc # "fallback")
                      => req[r].looked
                   /\ req[r].from # 0
                      => /\ req[r].from \in OrdersOf(req[r].email)
                         /\ req[r].items =
                               JSONparse(orders[req[r].from].products).items
                   /\ (req[r].from # 0 /\ req[r].response = 200)
                      => /\ req[r].order \in 1..Len(orders)
                         /\ orders[req[r].order].products =
                               orders[req[r].from].products
                         /\ \A p \in ProductIds :
                               req[r].dec[p] = QtyOf(req[r].items, p))
    /\ [][\A r \in Requests :
            (req[r].pc = "fallback" /\ req'[r].pc # "fallback"
             /\ ~req'[r].fault)
            => IF OrdersOf(req[r].email) = {} THEN req'[r].from = 0
               ELSE /\ req'[r].from \in OrdersOf(req[r].email)
                    /\ \A j \in OrdersOf(req[r].email) : j <= req'[r].from]_vars

\* C19 witness: a delivery for "a" without a usable manifest has created its
\* order from the items of an earlier order of "a", and a delivery with a
\* manifest has created its order without a lookup.
C19_Witness ==
    \E r, s \in Requests :
        /\ Fulfilling(r) /\ Len(ManifestItems(req[r].metadata)) = 0
           /\ req[r].email = "a" /\ req[r].from # 0
           /\ req[r].order # 0 /\ req[r].response = 200
        /\ Fulfilling(s) /\ Len(ManifestItems(req[s].metadata)) > 0
           /\ ~req[s].looked /\ req[s].order # 0

\* C20: an order request one of whose items names an unknown product, or
\* asks for more than the stock its check read, is never charged, takes no
\* stock and creates no order; and it is answered 400 unless a query of it
\* failed (then 500).
C20_BadItemRejected ==
    \A r \in Requests :
        ( /\ req[r].kind = "orders"
          /\ ~Known(req[r].items) \/ req[r].short )
        => /\ req[r].charged = -1 /\ NoStockTaken(r) /\ req[r].order = 0
           /\ req[r].pc \in {"check", "done"}
           /\ req[r].pc = "done"
              => req[r].response = IF req[r].fault THEN 500 ELSE 400

\* C20 witness: an order whose second item asks for more than the stock and
\* an order whose first item names an unknown product have both been answered
\* 400.
C20_Witness ==
    \E r, s \in Requests :
        /\ req[r].kind = "orders" /\ req[r].short /\ req[r].i = 2
           /\ req[r].response = 400
        /\ req[s].kind = "orders" /\ Len(req[s].items) = 2
           /\ req[s].items[1].id = UnknownId /\ req[s].response = 400

\* C21: every order row has status 'paid', and every step leaves the rows
\* the orders table has as they are: it can only add rows after them.
C21_OrdersAppendOnly ==
    /\ [](\A k \in 1..Len(orders) : orders[k].status = "paid")
    /\ [][/\ Len(orders') >= Len(orders)
          /\ \A k \in 1..Len(orders) : orders'[k] = orders[k]]_vars

\* C21 witness: an order request and a webhook delivery have each added an
\* order row.
C21_Witness ==
    \E r, s \in Requests :
        /\ req[r].kind = "orders" /\ req[r].order # 0
        /\ IsDelivery(s) /\ req[s].order # 0
        /\ Len(orders) = 2

RECURSIVE StoredQty(_, _)
\* The quantity of product p over the stored line items of the order rows
\* 1..k.
StoredQty(k, p) ==
    IF k = 0 THEN 0
    ELSE QtyOf(JSONparse(orders[k].products).items, p) + StoredQty(k - 1, p)

\* No request is in flight and no query or gateway call has failed.
Quiescent ==
    \A r \in Requests : req[r].pc \in {"idle", "done"} /\ ~req[r].fault

\* C22: when no request is in flight and no query or gateway call has
\* failed, for every product the stock at the start minus the stock now is
\* the quantity of that product over the stored line items of all order rows.
C22_StockConservation ==
    Quiescent
    => \A p \in ProductIds :
          InitStock[p] - products[p].stock = StoredQty(Len(orders), p)

\* C22 witness: two requests have been served, one of them a delivery, and
\* between them the orders hold three units of product 2 or more.
C22_Witness ==
    /\ Quiescent /\ Len(orders) = 2
    /\ \E r \in Requests : IsDelivery(r) /\ req[r].order # 0
    /\ StoredQty(Len(orders), 2) > InitStock[2]

\* Order request r has arrived.
Arrived(r) == req[r].kind = "orders"

\* Order request r has been answered, once.
Answered(r) == req[r].pc = "done" /\ req[r].sent = 1

\* C23: an order request that has arrived is in the end answered, and never
\* has more than one response; when its response is 200 it has issued the
\* stock update of every one of its items and its order row is in the table;
\* and a request that has an order row has been charged exactly once, the
\* amount being that row's total (in cents).
C23_OneResponseOneCharge ==
    /\ \A r \in Requests : Arrived(r) ~> Answered(r)
    /\ [](\A r \in Requests :
            Arrived(r)
            => /\ req[r].sent <= 1
               /\ req[r].sent = 1 <=> req[r].pc = "done"
               /\ req[r].response = 200
                  => /\ req[r].i = Len(req[r].items) + 1
                     /\ \A p \in ProductIds :
                           req[r].dec[p] = QtyOf(req[r].items, p)
                     /\ req[r].order \in 1..Len(orders)
               /\ req[r].order # 0
                  => /\ req[r].charges = 1
                     /\ req[r].charged = orders[req[r].order].total * Cents)

\* C23 witness: an order request for two items has its 200 answer, its
\* order row and its one charge.
C23_Witness ==
    \E r \in Requests :
        /\ Arrived(r) /\ Answered(r) /\ req[r].response = 200
        /\ Len(req[r].items) = 2 /\ req[r].order # 0 /\ req[r].charges = 1
        /\ req[r].charged = (Price[1] + InitStock[2] * Price[2]) * Cents

====
